---- MODULE Spec2Model ----
(***************************************************************************)
(* Model of src/src/js/protocols/NWSerial.js: the NW.js native serial      *)
(* session (connect / disconnect / send and the port's data, error and     *)
(* close events) on top of the serialport library's handles.               *)
(*                                                                         *)
(* One action is one JavaScript task: the synchronous part of a call, or  *)
(* one library callback together with the promise continuations it        *)
(* resolves (microtasks run before the next task).                         *)
(***************************************************************************)
EXTENDS Integers, Sequences, FiniteSets, TLC

\* ---------------------------------------------------------------- bounds
MaxHandles == 2      \* SerialPort objects the session creates in a run
MaxBytes   == 2      \* cap of the byte counters
MaxLen     == 2      \* longest chunk sent or received
MaxSends   == 1      \* send() calls awaiting write/drain at the same time
MaxPolls   == 2      \* poll ticks awaiting list() at the same time

Handles == 1..MaxHandles
Lens    == 1..MaxLen
Null    == 0                        \* this.port = null

\* ------------------------------------------------------- device registry
\* What SerialPort.list() reports: two devices; vendorId/productId are the
\* hex strings of the OS, as digit sequences (<<>>: not reported), and
\* manufacturer is "" when not reported.
SystemPorts ==
    << [path |-> "p1", vendorId |-> <<0, 4, 8, 3>>, productId |-> <<5, 7, 4, 0>>,
        manufacturer |-> "STMicroelectronics"],
       [path |-> "p2", vendorId |-> <<>>,           productId |-> <<>>,
        manufacturer |-> ""] >>

KnownPaths == {"p1", "p2"}
ReqPaths   == KnownPaths \cup {"px"}     \* "px": a path list() never reports
BaudRates  == {115200}                   \* options.baudRate (the default)

RECURSIVE parseInt16(_)
\* parseInt(str, 16) on a sequence of hex digits
parseInt16(ds) ==
    IF ds = <<>> THEN 0
    ELSE 16 * parseInt16(SubSeq(ds, 1, Len(ds) - 1)) + ds[Len(ds)]

\* vendorIdNames of ./devices: the label of a vendor id, "" when the table
\* has no entry for it
vendorIdNames(v) == IF v = 1155 THEN "STM Electronics" ELSE ""

\* a _createPort that prefers the manufacturer string to the vendor table
createPort_manufacturerFirst(portInfo) ==
    LET vendorId    == IF portInfo.vendorId # <<>> THEN parseInt16(portInfo.vendorId) ELSE 0
        productId   == IF portInfo.productId # <<>> THEN parseInt16(portInfo.productId) ELSE 0
        displayName == IF portInfo.manufacturer # "" THEN portInfo.manufacturer
                       ELSE IF vendorId # 0 /\ vendorIdNames(vendorId) # ""
                       THEN vendorIdNames(vendorId)
                       ELSE portInfo.path
    IN  [path        |-> portInfo.path,
         displayName |-> "Betaflight " \o displayName,
         vendorId    |-> vendorId,
         productId   |-> productId,
         port        |-> portInfo]

\* _createPort, lines 95-115; undefined is written 0: the ids of a device
\* are never 0
createPort(portInfo) ==
    LET vendorId    == IF portInfo.vendorId # <<>> THEN parseInt16(portInfo.vendorId) ELSE 0
        productId   == IF portInfo.productId # <<>> THEN parseInt16(portInfo.productId) ELSE 0
        displayName == IF vendorId # 0 /\ vendorIdNames(vendorId) # ""
                       THEN vendorIdNames(vendorId)
                       ELSE IF portInfo.manufacturer # "" THEN portInfo.manufacturer
                       ELSE portInfo.path
    IN  [path        |-> portInfo.path,
         displayName |-> "Betaflight " \o displayName,
         vendorId    |-> vendorId,
         productId   |-> productId,
         port        |-> portInfo]

\* the port records the OS can report: at p1 a USB device, its vendor in
\* the table or not, and at either path a port without ids; each with or
\* without a manufacturer string
RawPorts ==
    [path         : {"p1"},
     vendorId     : {<<0, 4, 8, 3>>, <<1, 2, 3, 4>>},
     productId    : {<<5, 7, 4, 0>>},
     manufacturer : {"", "FTDI"}]
    \cup
    [path         : KnownPaths,
     vendorId     : {<<>>},
     productId    : {<<>>},
     manufacturer : {"", "FTDI"}]

\* what SerialPort.list() can answer as devices come and go: any ports of
\* different paths, in any order
SystemLists ==
    {<<>>} \cup { <<r>> : r \in RawPorts }
           \cup { rq \in RawPorts \X RawPorts : rq[1].path # rq[2].path }

\* xs.map((p) => p.path), and includes()
RECURSIVE mapPath(_)
mapPath(xs) == IF xs = <<>> THEN <<>> ELSE <<Head(xs).path>> \o mapPath(Tail(xs))

includes(xs, x) == \E i \in 1..Len(xs) : xs[i] = x

\* this.ports.find((d) => d.path === path): index of the first match, 0 if none
findDevice(ps, path) ==
    IF \E i \in 1..Len(ps) : ps[i].path = path
    THEN CHOOSE i \in 1..Len(ps) :
            /\ ps[i].path = path
            /\ \A j \in 1..(i - 1) : ps[j].path # path
    ELSE 0

\* ------------------------------------------------------------------ state
VARIABLES
    sess,         \* the fields of the NWSerial object
    handles,      \* the SerialPort objects the session has created
    sends,        \* send() calls awaiting their write or drain callback
    ports,        \* this.ports
    sessionSent,  \* history: bytes of the sends that succeeded since the
                  \* session was entered
    last,         \* what the last task did: operation, results, events
    portHandler,  \* the port selector: its device lists and mode flags, the
                  \* argument and the result of selectActivePort
    evOpen,       \* history: a connect(connectionInfo) event was dispatched
                  \* and no disconnect event since
    polls,        \* the poll ticks that await the answer of list()
    devEvent      \* history: for each path, the type of the last device event
                  \* dispatched for it ("none": no event yet)

vars == <<sess, handles, sends, ports, sessionSent, last, portHandler, evOpen, polls,
          devEvent>>

NullInfo == [set |-> FALSE, usbVendorId |-> 0, usbProductId |-> 0]

\* a SerialPort object: st its state, nl how many times the listeners of
\* lines 215-234 were attached to it, closeCb the callback its pending close
\* will call, dev the device connect() found for it, pend whether the
\* promise of the connect() that made it is still unresolved; torn is
\* history: the teardowns (disconnect() past line 266) that its listeners
\* started
NoHandle == [st |-> "none", path |-> "", nl |-> 0, closeCb |-> "none", dev |-> NullInfo,
             torn |-> 0, pend |-> FALSE]

\* the state the constructor leaves (lines 14-31 and 50); connectionId is
\* not assigned there, so it is undefined
InitSess ==
    [connected       |-> FALSE,
     openRequested   |-> FALSE,
     openCanceled    |-> FALSE,
     closeRequested  |-> FALSE,
     transmitting    |-> FALSE,
     connectionInfo  |-> NullInfo,
     bitrate         |-> 0,
     bytesSent       |-> 0,
     bytesReceived   |-> 0,
     failed          |-> 0,
     port            |-> Null,
     reading         |-> FALSE,
     connectionId    |-> "undefined",
     receiveListener |-> FALSE,
     pollInterval    |-> TRUE]

\* ret: which call was answered in the task, and how
\*   connect:already, open:ok             connect() resolves true
\*   connect:notfound, open:error, open:canceled   connect() resolves false
\*   open:threw    the open callback threw, connect() never resolves
\*   disconnect:idle, disconnect:requested, disconnect:done, close:done
\*                 disconnect() resolves true
\*   disconnect:failed                    disconnect() resolves false
\*   send:rejected, write:error, send:ok  send() resolves {bytesSent: sent}
\*   write:threw   the write callback threw, send() never resolves: it stays
\*                 in sends at stage "threw"
\*   poll:done, poll:failed   _pollDevices() resolves
\*   getDevices    getDevices() resolves with this.ports
\* sent: the bytesSent of the result of send(), -1 when none was answered
\* ev: the events dispatched in the task, in order
\* torn: when the task ran the listeners of a port, how many teardowns that
\*   port's listeners have started up to now
\* path: the path argument when the task was a call of connect(), else ""
NoLast == [ret |-> "none", sent |-> -1, ev |-> <<>>, torn |-> 0, path |-> ""]

\* ------------------------------------------------------------ port selector
\* A displayName is a sequence of characters. The names a serial device can
\* show: a filter, a filter before other text, a filter after other text,
\* two filters (the later one of the list first), and a proper prefix of a
\* filter, which holds none. USB and Bluetooth devices show three of them.
DisplayNames ==
    { <<"A", "T", "3", "2">>,
      <<"C", "P", "2", "1", "0", "x">>,
      <<"B", " ", "S", "T", "M">>,
      <<"S", "T", "M", " ", "A", "T", "3", "2">>,
      <<"S", "T">> }

OtherNames ==
    { <<"A", "T", "3", "2">>,
      <<"B", " ", "S", "T", "M">>,
      <<"S", "T">> }

\* the ordered list of filter substrings, one per bootloader family
deviceFilter == << <<"A", "T", "3", "2">>, <<"C", "P", "2", "1", "0">>, <<"S", "T", "M">> >>

\* device.displayName.includes(filter): filter is a substring of name
nameIncludes(name, filter) ==
    \E i \in 0..(Len(name) - Len(filter)) : SubSeq(name, i + 1, i + Len(filter)) = filter

\* the longest list of each group (serial, USB, Bluetooth)
MaxSerial == 2
MaxOther  == 1

\* the lists of at most n devices of a group: the k-th device of group g
\* has the path g followed by k
Group(g, n, Names) ==
    UNION { { [k \in 1..m |-> [path |-> g \o ToString(k), displayName |-> names[k]]] :
                names \in [1..m -> Names] } : m \in 0..n }

\* "undefined" is the result when nothing is selected, NoDevice the
\* suggestedDevice argument left out
NoDevice == [path |-> "undefined"]

\* the suggested device: none, a device of the serial list, or a new one
Suggested == {NoDevice, [path |-> "serial1"], [path |-> "COM10"]}

Selections ==
    [currentSerialPorts    : Group("serial", MaxSerial, DisplayNames),
     currentUsbPorts       : Group("usb", MaxOther, OtherNames),
     currentBluetoothPorts : Group("bluetooth", MaxOther, OtherNames),
     showVirtualMode       : BOOLEAN,
     showManualMode        : BOOLEAN,
     suggestedDevice       : Suggested,
     called                : {FALSE},
     result                : {"undefined"},
     selectedPort          : {"undefined"}]

\* the selector before any device is known
NoSelection ==
    [currentSerialPorts    |-> <<>>,
     currentUsbPorts       |-> <<>>,
     currentBluetoothPorts |-> <<>>,
     showVirtualMode       |-> FALSE,
     showManualMode        |-> FALSE,
     suggestedDevice       |-> NoDevice,
     called                |-> FALSE,
     result                |-> "undefined",
     selectedPort          |-> "undefined"]

\* a scan of the serial devices only
scanOrder_serialOnly(ph) == ph.currentSerialPorts

\* the devices in scan order: serial, then USB, then Bluetooth
scanOrder(ph) ==
    ph.currentSerialPorts \o ph.currentUsbPorts \o ph.currentBluetoothPorts

\* the first device of devs whose displayName holds the filter, 0 if none
firstMatch(devs, filter) ==
    IF \E i \in 1..Len(devs) : nameIncludes(devs[i].displayName, filter)
    THEN CHOOSE i \in 1..Len(devs) :
            /\ nameIncludes(devs[i].displayName, filter)
            /\ \A j \in 1..(i - 1) : ~nameIncludes(devs[j].displayName, filter)
    ELSE 0

\* a scan in which the first device that holds any filter wins
RECURSIVE findByFilter_deviceFirst(_, _)
findByFilter_deviceFirst(devs, filters) ==
    IF devs = <<>> THEN "undefined"
    ELSE IF \E f \in 1..Len(filters) : nameIncludes(Head(devs).displayName, filters[f])
    THEN Head(devs).path
    ELSE findByFilter_deviceFirst(Tail(devs), filters)

\* the heuristic: the first filter of the list that any scanned device
\* matches wins, and the first such device in scan order is chosen
RECURSIVE findByFilter(_, _)
findByFilter(devs, filters) ==
    IF filters = <<>> THEN "undefined"
    ELSE IF firstMatch(devs, Head(filters)) # 0
    THEN devs[firstMatch(devs, Head(filters))].path
    ELSE findByFilter(devs, Tail(filters))

\* a selector that tries the heuristic before the suggested device
selectActivePort_heuristicFirst(ph) ==
    LET found == findByFilter(scanOrder(ph), deviceFilter)
    IN  IF found # "undefined" THEN found
        ELSE IF ph.suggestedDevice # NoDevice THEN ph.suggestedDevice.path
        ELSE IF ph.showVirtualMode THEN "virtual"
        ELSE IF ph.showManualMode THEN "manual"
        ELSE "undefined"

\* a selector that prefers the manual sentinel to the virtual one
selectActivePort_manualFirst(ph) ==
    IF ph.suggestedDevice # NoDevice THEN ph.suggestedDevice.path
    ELSE LET found == findByFilter(scanOrder(ph), deviceFilter)
         IN  IF found # "undefined" THEN found
             ELSE IF ph.showManualMode THEN "manual"
             ELSE IF ph.showVirtualMode THEN "virtual"
             ELSE "undefined"

\* selectActivePort(suggestedDevice): hint, heuristic, virtual, manual, none
selectActivePort(ph) ==
    IF ph.suggestedDevice # NoDevice THEN ph.suggestedDevice.path
    ELSE LET found == findByFilter(scanOrder(ph), deviceFilter)
         IN  IF found # "undefined" THEN found
             ELSE IF ph.showVirtualMode THEN "virtual"
             ELSE IF ph.showManualMode THEN "manual"
             ELSE "undefined"

\* portPicker.selectedPort after the call: "noselection" when there is no
\* result
selectedPort(result) == IF result = "undefined" THEN "noselection" ELSE result

Init ==
    /\ sess = InitSess
    /\ handles = [h \in Handles |-> NoHandle]
    /\ sends = <<>>
    /\ ports = <<>>
    /\ sessionSent = 0
    /\ last = NoLast
    /\ portHandler = NoSelection
    /\ evOpen = FALSE
    /\ polls = 0
    /\ devEvent = [p \in KnownPaths |-> "none"]

\* ----------------------------------------------------------------- events
ConnectEv(info)  == [type |-> "connect", ok |-> info.set, info |-> info, len |-> 0]
DisconnectEv(ok) == [type |-> "disconnect", ok |-> ok, info |-> NullInfo, len |-> 0]
ReceiveEv(n)     == [type |-> "receive", ok |-> TRUE, info |-> NullInfo, len |-> n]
AddedEv(d)       == [type |-> "addedDevice", detail |-> d]
RemovedEv(d)     == [type |-> "removedDevice", detail |-> d]

Count(evs, t) == Cardinality({i \in 1..Len(evs) : evs[i].type = t})

\* ------------------------------------------------- the serialport library
\* SerialPort.isOpen: false while opening and while closing
isOpen(H, h) == H[h].st = "open"

\* the OS opens a path for one handle at a time (serialport locks the port)
PathBusy(H, h) ==
    \E g \in Handles : g # h /\ H[g].path = H[h].path /\ H[g].st \in {"open", "closing"}

\* A world is what one task reads and writes: s the session fields, H the
\* handles, ev the events dispatched so far in the task.
World(s, H) == [s |-> s, H |-> H, ev |-> <<>>]

Emit(w, e) == [w EXCEPT !.ev = Append(@, e)]

\* -------------------------------------------------------------- disconnect
\* lines 282-293 and the finally block: what disconnect() does after the
\* close callback (or at once when there is nothing to close)
disconnectFinish(w) ==
    LET s1 == [w.s EXCEPT !.port = Null,
                          !.connectionId = "false",
                          !.bitrate = 0,
                          !.connectionInfo = NullInfo,
                          !.closeRequested = FALSE,
                          !.openCanceled = FALSE]
    IN  Emit([w EXCEPT !.s = s1], DisconnectEv(TRUE))

\* lines 294-299 and the finally block: the catch of an exception thrown by
\* this.port.close(); port, connectionId and bitrate are not assigned there
disconnectCatch(w) ==
    LET s1 == [w.s EXCEPT !.closeRequested = FALSE,
                          !.connectionInfo = NullInfo,
                          !.openCanceled = FALSE]
    IN  Emit([w EXCEPT !.s = s1], DisconnectEv(FALSE))

\* a disconnect() without the early return of lines 254-256
disconnect_noGuard(w) ==
    LET s1 == [w.s EXCEPT !.connected = FALSE,
                          !.transmitting = FALSE,
                          !.reading = FALSE]
    IN  IF s1.closeRequested THEN [w EXCEPT !.s = s1]
        ELSE LET s2 == [s1 EXCEPT !.closeRequested = TRUE,
                                  !.receiveListener = FALSE]
                 p  == s2.port
             IN  IF p # Null /\ isOpen(w.H, p)
                 THEN [w EXCEPT !.s = s2,
                                !.H[p].st = "closing",
                                !.H[p].closeCb = "disconnect"]
                 ELSE disconnectFinish([w EXCEPT !.s = s2])

\* disconnect() up to its await (lines 253-280)
disconnect(w) ==
    IF ~w.s.connected THEN w
    ELSE LET s1 == [w.s EXCEPT !.connected = FALSE,
                               !.transmitting = FALSE,
                               !.reading = FALSE]
         IN  IF s1.closeRequested THEN [w EXCEPT !.s = s1]
             ELSE LET s2 == [s1 EXCEPT !.closeRequested = TRUE,
                                       !.receiveListener = FALSE]
                      p  == s2.port
                  IN  IF p # Null /\ isOpen(w.H, p)
                      THEN [w EXCEPT !.s = s2,
                                     !.H[p].st = "closing",
                                     !.H[p].closeCb = "disconnect"]
                      ELSE disconnectFinish([w EXCEPT !.s = s2])

\* how a call of disconnect() is answered in the task that calls it
disconnectResult(w) ==
    IF ~w.s.connected THEN "disconnect:idle"
    ELSE IF w.s.closeRequested THEN "disconnect:requested"
    ELSE IF w.s.port # Null /\ isOpen(w.H, w.s.port) THEN "none"
    ELSE "disconnect:done"

\* ----------------------------------------------------- committing a task
\* a closed SerialPort object does nothing any more: it has no events, it
\* is not open, its close, write and drain fail; what it was is forgotten,
\* except the promise of its connect() when that was left unresolved
Dead == [NoHandle EXCEPT !.st = "closed"]

Forget(H) ==
    [h \in Handles |-> IF H[h].st = "closed" THEN [Dead EXCEPT !.pend = H[h].pend]
                                              ELSE H[h]]

\* what a subscriber knows after the events evs: open after a
\* connect(connectionInfo), not open after a disconnect
RECURSIVE afterEvents(_, _)
afterEvents(open, evs) ==
    IF evs = <<>> THEN open
    ELSE afterEvents(IF Head(evs).type = "connect" /\ Head(evs).ok THEN TRUE
                     ELSE IF Head(evs).type = "disconnect" THEN FALSE
                     ELSE open,
                     Tail(evs))

\* what a subscriber knows of each path after the events evs: the type of
\* the last addedDevice / removedDevice event that named it
RECURSIVE afterDeviceEvents(_, _)
afterDeviceEvents(seen, evs) ==
    IF evs = <<>> THEN seen
    ELSE afterDeviceEvents(IF Head(evs).type \in {"addedDevice", "removedDevice"}
                           THEN [seen EXCEPT ![Head(evs).detail.path] = Head(evs).type]
                           ELSE seen,
                           Tail(evs))

\* the task ends: h is the port whose listeners it ran (Null: none), path
\* the argument of connect() ("": another task)
Commit(h, w, sq, ret, sent, path) ==
    /\ sess' = w.s
    /\ handles' = Forget(w.H)
    /\ sends' = sq
    /\ last' = [ret |-> ret, sent |-> sent, ev |-> w.ev,
                torn |-> IF h = Null THEN 0 ELSE w.H[h].torn,
                path |-> path]
    /\ evOpen' = afterEvents(evOpen, w.ev)
    /\ devEvent' = afterDeviceEvents(devEvent, w.ev)
    /\ UNCHANGED portHandler

StepOn(h, w, sq, ret, sent) == Commit(h, w, sq, ret, sent, "")

Step(w, sq, ret, sent) == StepOn(Null, w, sq, ret, sent)

\* the SerialPort object the next new this._SerialPort(...) makes
NewHandle == Cardinality({h \in Handles : handles[h].st # "none"}) + 1

\* ----------------------------------------------------------------- connect
\* a connect() without the early return of lines 156-159
connectCall_noGuard(w, ps, path, h) ==
    LET s1 == [w.s EXCEPT !.openRequested = TRUE, !.closeRequested = FALSE]
        d  == findDevice(ps, path)
    IN  IF d = 0
        THEN Emit([w EXCEPT !.s = s1], ConnectEv(NullInfo))
        ELSE [w EXCEPT !.s = [s1 EXCEPT !.port = h],
                       !.H[h] = [st |-> "opening", path |-> path, nl |-> 0,
                                 closeCb |-> "none", torn |-> 0, pend |-> TRUE,
                                 dev |-> [set |-> TRUE,
                                          usbVendorId |-> ps[d].vendorId,
                                          usbProductId |-> ps[d].productId]]]

\* connect(path, options), lines 155-179: the call itself
connectCall(w, ps, path, h) ==
    IF w.s.connected THEN w
    ELSE LET s1 == [w.s EXCEPT !.openRequested = TRUE, !.closeRequested = FALSE]
             d  == findDevice(ps, path)
         IN  IF d = 0
             THEN Emit([w EXCEPT !.s = s1], ConnectEv(NullInfo))
             ELSE [w EXCEPT !.s = [s1 EXCEPT !.port = h],
                            !.H[h] = [st |-> "opening", path |-> path, nl |-> 0,
                                      closeCb |-> "none", torn |-> 0, pend |-> TRUE,
                                      dev |-> [set |-> TRUE,
                                               usbVendorId |-> ps[d].vendorId,
                                               usbProductId |-> ps[d].productId]]]

connectResult(s, ps, path) ==
    IF s.connected THEN "connect:already"
    ELSE IF findDevice(ps, path) = 0 THEN "connect:notfound"
    ELSE "none"

Connect(path) ==
    /\ \/ sess.connected
       \/ findDevice(ports, path) = 0
       \/ NewHandle \in Handles
    /\ Commit(Null, connectCall(World(sess, handles), ports, path, NewHandle), sends,
              connectResult(sess, ports, path), -1, path)
    /\ UNCHANGED <<ports, polls, sessionSent>>

\* lines 180-187: the open callback with an error
openFailed(w) ==
    Emit([w EXCEPT !.s = [w.s EXCEPT !.openRequested = FALSE, !.port = Null]],
         ConnectEv(NullInfo))

\* lines 192-195: the callback of the close of a canceled open
cancelClosed(w) ==
    Emit([w EXCEPT !.s = [w.s EXCEPT !.port = Null]], ConnectEv(NullInfo))

\* lines 189-198; this.port is read again here: null.close is a TypeError,
\* and the close of a port that is not open calls back with an error at once
openCanceled(w) ==
    LET s1 == [w.s EXCEPT !.openRequested = FALSE, !.openCanceled = FALSE]
        p  == s1.port
    IN  IF p = Null THEN [w EXCEPT !.s = s1]
        ELSE IF isOpen(w.H, p)
        THEN [w EXCEPT !.s = s1, !.H[p].st = "closing", !.H[p].closeCb = "cancel"]
        ELSE cancelClosed([w EXCEPT !.s = s1])

\* lines 200-242; this.port is read again here: null.on is a TypeError
openSucceeded(w, h, baud) ==
    LET s1 == [w.s EXCEPT !.connected = TRUE,
                          !.connectionId = w.H[h].path,
                          !.bitrate = baud,
                          !.bytesReceived = 0,
                          !.bytesSent = 0,
                          !.failed = 0,
                          !.openRequested = FALSE,
                          !.reading = TRUE,
                          !.connectionInfo = w.H[h].dev]
        p  == s1.port
    IN  IF p = Null THEN [w EXCEPT !.s = s1]
        ELSE Emit([w EXCEPT !.s = [s1 EXCEPT !.receiveListener = TRUE],
                            !.H[p].nl = @ + 1],
                  ConnectEv(s1.connectionInfo))

\* the callback of this.port.open, lines 179-243, for the handle h that the
\* call created
openCallback(w, h, ok, baud) ==
    IF ~ok THEN openFailed(w)
    ELSE IF w.s.openCanceled THEN openCanceled(w)
    ELSE openSucceeded(w, h, baud)

openResult(s, ok) ==
    IF ~ok THEN "open:error"
    ELSE IF s.port = Null THEN "open:threw"
    ELSE IF s.openCanceled THEN "open:canceled" ELSE "open:ok"

OpenDone(h, ok, baud) ==
    /\ handles[h].st = "opening"
    /\ ok => ~PathBusy(handles, h)
    /\ LET H1      == [handles EXCEPT ![h].st = IF ok THEN "open" ELSE "closed"]
           entered == ok /\ ~sess.openCanceled
           w1      == openCallback(World(sess, H1), h, ok, baud)
           threw   == openResult(sess, ok) = "open:threw"
       IN  /\ Step([w1 EXCEPT !.H[h].pend = threw], sends, openResult(sess, ok), -1)
           /\ sessionSent' = IF entered THEN 0 ELSE sessionSent
    /\ UNCHANGED <<ports, polls>>

\* a caller gives up a pending connect: openCanceled is a public field that
\* the open callback samples
CancelOpen ==
    /\ \E h \in Handles : handles[h].st = "opening"
    /\ ~sess.openCanceled
    /\ Step([World(sess, handles) EXCEPT !.s.openCanceled = TRUE], sends, "none", -1)
    /\ UNCHANGED <<ports, polls, sessionSent>>

\* -------------------------------------------------------------- disconnect
Disconnect ==
    /\ Step(disconnect(World(sess, handles)), sends,
            disconnectResult(World(sess, handles)), -1)
    /\ UNCHANGED <<ports, polls, sessionSent>>

\* disconnect() when this.port.close() throws instead of calling back
\* (lines 253-273, then the catch): the handle stays as it is
DisconnectCloseThrows ==
    /\ sess.connected
    /\ ~sess.closeRequested
    /\ sess.port # Null
    /\ isOpen(handles, sess.port)
    /\ LET s1 == [sess EXCEPT !.connected = FALSE,
                              !.transmitting = FALSE,
                              !.reading = FALSE,
                              !.closeRequested = TRUE,
                              !.receiveListener = FALSE]
       IN  Step(disconnectCatch(World(s1, handles)), sends, "disconnect:failed", -1)
    /\ UNCHANGED <<ports, polls, sessionSent>>

\* lines 224-226 and 230-233: a listener of handle h calls disconnect()
listenerDisconnect(w, h) ==
    IF w.s.connected
    THEN disconnect([w EXCEPT !.H[h].torn = IF w.s.closeRequested THEN @ ELSE @ + 1])
    ELSE w

\* the "close" listeners of handle h (lines 229-234), k of them
RECURSIVE closeListeners(_, _, _)
closeListeners(w, h, k) ==
    IF k = 0 THEN w ELSE closeListeners(listenerDisconnect(w, h), h, k - 1)

\* the "error" listeners of handle h (lines 222-227), k of them
RECURSIVE errorListeners(_, _, _)
errorListeners(w, h, k) ==
    IF k = 0 THEN w ELSE errorListeners(listenerDisconnect(w, h), h, k - 1)

\* the close of handle h completes: on success the library emits "close" and
\* then calls the callback; on failure it calls the callback with the error
\* and the handle stays open
CloseDone(h, ok) ==
    /\ handles[h].st = "closing"
    /\ LET cb == handles[h].closeCb
           H1 == [handles EXCEPT ![h].st = IF ok THEN "closed" ELSE "open",
                                 ![h].closeCb = "none"]
           w1 == IF ok THEN closeListeners(World(sess, H1), h, H1[h].nl)
                       ELSE World(sess, H1)
       IN  IF cb = "disconnect"
           THEN StepOn(h, disconnectFinish(w1), sends, "close:done", -1)
           ELSE StepOn(h, cancelClosed(w1), sends, "none", -1)
    /\ UNCHANGED <<ports, polls, sessionSent>>

\* ------------------------------------------------ unsolicited port events
\* the port reports an error and stays as it is
ErrorEvent(h) ==
    /\ handles[h].st \in {"open", "closing"}
    /\ handles[h].nl > 0
    /\ StepOn(h, errorListeners(World(sess, handles), h, handles[h].nl), sends,
              "none", -1)
    /\ UNCHANGED <<ports, polls, sessionSent>>

\* the device goes away: the library closes the handle and emits "close";
\* with both, an "error" goes with it for the same failure, before or after
Unplug(h, both) ==
    /\ handles[h].st = "open"
    /\ LET H1 == [handles EXCEPT ![h].st = "closed"]
           k  == handles[h].nl
           w1 == closeListeners(World(sess, H1), h, k)
       IN  StepOn(h, IF both THEN errorListeners(w1, h, k) ELSE w1, sends, "none", -1)
    /\ UNCHANGED <<ports, polls, sessionSent>>

\* handleReceiveBytes, lines 117-119
handleReceiveBytes(s, n) == [s EXCEPT !.bytesReceived = @ + n]

\* one "data" listener of lines 215-220 and the dispatch of its event
dataListener(w, n) ==
    IF w.s.reading
    THEN Emit([w EXCEPT !.s = IF w.s.receiveListener
                              THEN handleReceiveBytes(w.s, n) ELSE w.s],
              ReceiveEv(n))
    ELSE w

RECURSIVE dataListeners(_, _, _)
dataListeners(w, n, k) ==
    IF k = 0 THEN w ELSE dataListeners(dataListener(w, n), n, k - 1)

\* a chunk of n bytes arrives on handle h
DataEvent(h, n) ==
    /\ handles[h].st = "open"
    /\ handles[h].nl > 0
    /\ LET w1 == dataListeners(World(sess, handles), n, handles[h].nl)
       IN  /\ w1.s.bytesReceived <= MaxBytes
           /\ Step(w1, sends, "none", -1)
    /\ UNCHANGED <<ports, polls, sessionSent>>

\* -------------------------------------------------------------------- send
RECURSIVE PendingBytes(_)
PendingBytes(sq) == IF sq = <<>> THEN 0 ELSE Head(sq).len + PendingBytes(Tail(sq))

Remove(sq, i) == SubSeq(sq, 1, i - 1) \o SubSeq(sq, i + 1, Len(sq))

\* line 308
sendRejected(s) == ~s.connected \/ s.port = Null

\* send(data), lines 307-320: the call itself
Send(n) ==
    /\ IF sendRejected(sess)
       THEN Step(World(sess, handles), sends, "send:rejected", 0)
       ELSE /\ Len(sends) < MaxSends
            /\ sess.bytesSent + PendingBytes(sends) + n <= MaxBytes
            /\ Step(World(sess, handles),
                    Append(sends, [stage |-> "write", h |-> sess.port, len |-> n]),
                    "none", -1)
    /\ UNCHANGED <<ports, polls, sessionSent>>

\* a send() that counts one write instead of its bytes
sendFinish_one(s, n) == [s EXCEPT !.bytesSent = @ + 1]

\* lines 329-334: the continuation of the resolved promise
sendFinish(s, n) == [s EXCEPT !.bytesSent = @ + n]

\* a send() that counts the bytes of a failed write too
sendFailed_counts(s, n) == [s EXCEPT !.bytesSent = @ + n]

\* lines 335-342: the continuation of the rejected promise
sendFailed(s, n) == s

\* the callback of this.port.write, lines 320-326; this.port is read again
\* for the drain: null.drain is a TypeError, and the drain of a port that is
\* not open calls back (resolve) with an error at once
WriteDone(i, ok) ==
    /\ i \in 1..Len(sends)
    /\ sends[i].stage = "write"
    /\ ok => isOpen(handles, sends[i].h)
    /\ LET n == sends[i].len
           p == sess.port
       IN  IF ~ok
           THEN /\ Step([World(sess, handles) EXCEPT !.s = sendFailed(sess, n)],
                        Remove(sends, i), "write:error", 0)
                /\ UNCHANGED sessionSent
           ELSE IF p = Null
           THEN /\ Step(World(sess, handles), [sends EXCEPT ![i].stage = "threw"],
                        "write:threw", -1)
                /\ UNCHANGED sessionSent
           ELSE IF isOpen(handles, p)
           THEN /\ Step(World(sess, handles),
                        [sends EXCEPT ![i].stage = "drain", ![i].h = p], "none", -1)
                /\ UNCHANGED sessionSent
           ELSE /\ Step([World(sess, handles) EXCEPT !.s = sendFinish(sess, n)],
                        Remove(sends, i), "send:ok", n)
                /\ sessionSent' = sessionSent + n
    /\ UNCHANGED <<ports, polls>>

\* the callback of this.port.drain: resolve, whatever its argument
DrainDone(i) ==
    /\ i \in 1..Len(sends)
    /\ sends[i].stage = "drain"
    /\ LET n == sends[i].len
       IN  /\ Step([World(sess, handles) EXCEPT !.s = sendFinish(sess, n)],
                   Remove(sends, i), "send:ok", n)
           /\ sessionSent' = sessionSent + n
    /\ UNCHANGED <<ports, polls>>

\* ------------------------------------------------------------- loadDevices
RECURSIVE mapCreatePort(_)
mapCreatePort(raw) ==
    IF raw = <<>> THEN <<>>
    ELSE <<createPort(Head(raw))>> \o mapCreatePort(Tail(raw))

\* lines 133-135: list() threw in loadDevices()
loadFailed(ps) == ps

\* loadDevices() from its await on, lines 131-135, with what list()
\* answered: the call itself changes nothing before that
loadDevices(ps, systemPorts, ok) ==
    IF ok THEN mapCreatePort(systemPorts) ELSE loadFailed(ps)

\* loadDevices() (from the constructor or requestPermissionDevice) ends
LoadFrom(systemPorts, ok) ==
    /\ ports' = loadDevices(ports, systemPorts, ok)
    /\ Step(World(sess, handles), sends, "none", -1)
    /\ UNCHANGED <<polls, sessionSent>>

\* loadDevices() while the devices stay SystemPorts
LoadDevices(ok) == LoadFrom(SystemPorts, ok)

\* getDevices(), lines 150-153: loadDevices(), then this.ports is returned
GetDevices(systemPorts, ok) ==
    /\ ports' = loadDevices(ports, systemPorts, ok)
    /\ Step(World(sess, handles), sends, "getDevices", -1)
    /\ UNCHANGED <<polls, sessionSent>>

\* ------------------------------------------------------------ _pollDevices
\* r is this.ports and the events dispatched so far: [ps, ev]

\* a poll that adds every fetched port, known or not
RECURSIVE pollAdded_noKnown(_, _, _)
pollAdded_noKnown(r, systemPorts, knownPaths) ==
    IF systemPorts = <<>> THEN r
    ELSE LET added == createPort(Head(systemPorts))
         IN  pollAdded_noKnown([ps |-> Append(r.ps, added),
                                ev |-> Append(r.ev, AddedEv(added))],
                               Tail(systemPorts), knownPaths)

\* lines 75-81: the loop over the fetched ports
RECURSIVE pollAdded(_, _, _)
pollAdded(r, systemPorts, knownPaths) ==
    IF systemPorts = <<>> THEN r
    ELSE LET portInfo == Head(systemPorts)
             added    == createPort(portInfo)
         IN  pollAdded(IF ~includes(knownPaths, portInfo.path)
                       THEN [ps |-> Append(r.ps, added),
                             ev |-> Append(r.ev, AddedEv(added))]
                       ELSE r,
                       Tail(systemPorts), knownPaths)

\* this.ports.filter((p) => p.path !== path)
filterPath(ps, path) == SelectSeq(ps, LAMBDA p : p.path # path)

\* a poll that reports a removed port and keeps it
RECURSIVE pollRemoved_keeps(_, _, _)
pollRemoved_keeps(r, copy, currentPaths) ==
    IF copy = <<>> THEN r
    ELSE LET port == Head(copy)
         IN  pollRemoved_keeps(IF ~includes(currentPaths, port.path)
                               THEN [ps |-> r.ps,
                                     ev |-> Append(r.ev, RemovedEv(port))]
                               ELSE r,
                               Tail(copy), currentPaths)

\* lines 84-89: the loop over a copy of this.ports
RECURSIVE pollRemoved(_, _, _)
pollRemoved(r, copy, currentPaths) ==
    IF copy = <<>> THEN r
    ELSE LET port == Head(copy)
         IN  pollRemoved(IF ~includes(currentPaths, port.path)
                         THEN [ps |-> filterPath(r.ps, port.path),
                               ev |-> Append(r.ev, RemovedEv(port))]
                         ELSE r,
                         Tail(copy), currentPaths)

\* a poll that forgets the devices when list() throws
pollFailed_clears(ps) == [ps |-> <<>>, ev |-> <<>>]

\* lines 90-92: list() threw in _pollDevices()
pollFailed(ps) == [ps |-> ps, ev |-> <<>>]

\* _pollDevices() from its await on, lines 70-92, with what list() answered
pollDevices(ps, systemPorts, ok) ==
    IF ~ok THEN pollFailed(ps)
    ELSE LET currentPaths == mapPath(systemPorts)
             knownPaths   == mapPath(ps)
             r1 == pollAdded([ps |-> ps, ev |-> <<>>], systemPorts, knownPaths)
         IN  pollRemoved(r1, r1.ps, currentPaths)

\* a tick of the interval of line 54: _pollDevices() is called and awaits
\* list() (lines 64-70), whether or not an earlier tick still awaits its own
PollTick ==
    /\ sess.pollInterval
    /\ polls < MaxPolls
    /\ polls' = polls + 1
    /\ Step(World(sess, handles), sends, "none", -1)
    /\ UNCHANGED <<ports, sessionSent>>

\* list() answers a tick that awaits it, and the tick ends
PollDevices(systemPorts, ok) ==
    /\ polls > 0
    /\ polls' = polls - 1
    /\ LET r == pollDevices(ports, systemPorts, ok)
       IN  /\ ports' = r.ps
           /\ Step([World(sess, handles) EXCEPT !.ev = r.ev], sends,
                   IF ok THEN "poll:done" ELSE "poll:failed", -1)
    /\ UNCHANGED sessionSent

\* -------------------------------------------------------------------- spec
Next ==
    \/ \E path \in ReqPaths : Connect(path)
    \/ \E h \in Handles, ok \in BOOLEAN, baud \in BaudRates : OpenDone(h, ok, baud)
    \/ CancelOpen
    \/ Disconnect
    \/ DisconnectCloseThrows
    \/ \E h \in Handles, ok \in BOOLEAN : CloseDone(h, ok)
    \/ \E h \in Handles : ErrorEvent(h)
    \/ \E h \in Handles, both \in BOOLEAN : Unplug(h, both)
    \/ \E h \in Handles, n \in Lens : DataEvent(h, n)
    \/ \E n \in Lens : Send(n)
    \/ \E i \in 1..MaxSends, ok \in BOOLEAN : WriteDone(i, ok)
    \/ \E i \in 1..MaxSends : DrainDone(i)
    \/ \E ok \in BOOLEAN : LoadDevices(ok)

Spec == Init /\ [][Next]_vars

\* every callback the library owes is eventually called: the open of each
\* handle, its close, the write and the drain of each send
Fairness ==
    /\ \A h \in Handles :
          /\ WF_vars(\E ok \in BOOLEAN, baud \in BaudRates : OpenDone(h, ok, baud))
          /\ WF_vars(\E ok \in BOOLEAN : CloseDone(h, ok))
    /\ \A i \in 1..MaxSends :
          /\ WF_vars(\E ok \in BOOLEAN : WriteDone(i, ok))
          /\ WF_vars(DrainDone(i))

LiveSpec == Spec /\ Fairness

\* The registry on its own. The session and the registry share this.ports
\* only, which connect() reads: here the session stays as constructed and
\* list() answers any SystemLists, as devices are plugged and unplugged
\* between the calls.
RegNext ==
    \/ PollTick
    \/ \E systemPorts \in SystemLists, ok \in BOOLEAN : PollDevices(systemPorts, ok)
    \/ \E systemPorts \in SystemLists, ok \in BOOLEAN : LoadFrom(systemPorts, ok)
    \/ \E systemPorts \in SystemLists, ok \in BOOLEAN : GetDevices(systemPorts, ok)

RegSpec == Init /\ [][RegNext]_vars

\* The port selector on its own: a pure function of the device lists, the
\* mode flags and the suggested device, applied once to each input.
SelInit ==
    /\ sess = InitSess
    /\ handles = [h \in Handles |-> NoHandle]
    /\ sends = <<>>
    /\ ports = <<>>
    /\ sessionSent = 0
    /\ last = NoLast
    /\ portHandler \in Selections
    /\ evOpen = FALSE
    /\ polls = 0
    /\ devEvent = [p \in KnownPaths |-> "none"]

SelectActivePort ==
    /\ ~portHandler.called
    /\ portHandler' = [portHandler EXCEPT
                          !.called = TRUE,
                          !.result = selectActivePort(portHandler),
                          !.selectedPort = selectedPort(selectActivePort(portHandler))]
    /\ UNCHANGED <<sess, handles, sends, ports, sessionSent, last, evOpen, polls,
                   devEvent>>

SelNext == SelectActivePort

SelSpec == SelInit /\ [][SelNext]_vars

TypeOK ==
    /\ sess.port \in {Null} \cup Handles
    /\ sess.bytesSent \in 0..MaxBytes
    /\ sess.bytesReceived \in 0..MaxBytes
    /\ sessionSent \in 0..MaxBytes
    /\ Len(sends) <= MaxSends
    /\ polls \in 0..MaxPolls
    /\ devEvent \in [KnownPaths -> {"none", "addedDevice", "removedDevice"}]

\* ------------------------------------------------------------------ claims
OnlyEvent(e) == last'.ev = <<e>>

\* C1: in every reachable state the session is Open (connected) if and only
\* if connectionId is a device path and a handle is owned (port is not null).
C1_OpenIffOwned ==
    sess.connected <=> (sess.connectionId \in KnownPaths /\ sess.port # Null)

\* C2: every handle that is open is the one the session refers to.
C2_NoOrphanHandle ==
    \A h \in Handles : handles[h].st = "open" => sess.port = h

\* C3: when the open of a connect() succeeds after a cancellation was asked,
\* the just-opened handle is closed, connect() resolves false, and when that
\* close has called back the session is Idle, exactly one connect(false) was
\* dispatched and the path is free for the next connect().
C3_CanceledOpen ==
    [][ /\ \A h \in Handles, baud \in BaudRates :
              OpenDone(h, TRUE, baud) /\ sess.openCanceled =>
                  /\ last'.ret = "open:canceled"
                  /\ handles'[h].st = "closing"
                  /\ handles'[h].closeCb = "cancel"
                  /\ ~sess'.connected
                  /\ last'.ev = <<>>
        /\ \A h \in Handles :
              CloseDone(h, TRUE) /\ handles[h].closeCb = "cancel" =>
                  /\ ~sess'.connected
                  /\ sess'.port = Null
                  /\ OnlyEvent(ConnectEv(NullInfo))
                  /\ \A g \in Handles :
                        handles'[g].st \in {"open", "closing"} =>
                            handles'[g].path # handles[h].path
      ]_vars

\* C4: a failure of the open session's port tears the session down exactly
\* once, whether the port's error event, its close event or both report it:
\* the listeners of one port start one teardown and never a second one, and
\* the task that ends a teardown dispatches exactly one disconnect event.
C4_OneTeardown ==
    [][ /\ last'.torn <= 1
        /\ \A h \in Handles, both \in BOOLEAN :
              Unplug(h, both) /\ sess.connected /\ sess.port = h =>
                  /\ last'.torn = 1
                  /\ Count(last'.ev, "disconnect") = 1
                  /\ ~sess'.connected /\ sess'.port = Null
        /\ \A h \in Handles :
              ErrorEvent(h) /\ sess.connected /\ sess.port = h /\ isOpen(handles, h) =>
                  /\ last'.torn = 1
                  /\ handles'[h].st = "closing"
                  /\ handles'[h].closeCb = "disconnect"
        /\ \A h \in Handles, ok \in BOOLEAN :
              CloseDone(h, ok) /\ handles[h].closeCb = "disconnect" =>
                  Count(last'.ev, "disconnect") = 1
      ]_vars

\* C5: disconnect() on a session that is not connected returns true, changes
\* no field of the session and dispatches no event (so two such calls in a
\* row return true twice and dispatch no disconnect event).
C5_DisconnectIdle ==
    [][ Disconnect /\ ~sess.connected =>
            /\ last'.ret = "disconnect:idle"
            /\ sess' = sess
            /\ handles' = handles
            /\ last'.ev = <<>>
      ]_vars

C5_Witness == last.ret = "disconnect:idle" /\ ~sess.connected /\ last.ev = <<>>

\* C6: when the open succeeds and no cancellation was asked, the session is
\* Open with the three counters at 0 and connectionId the requested path,
\* and one connect(connectionInfo) event is dispatched.
C6_EnterOpen ==
    [][ \A h \in Handles, baud \in BaudRates :
            OpenDone(h, TRUE, baud) /\ ~sess.openCanceled =>
                /\ sess'.connected
                /\ sess'.bytesSent = 0
                /\ sess'.bytesReceived = 0
                /\ sess'.failed = 0
                /\ sess'.connectionId = handles[h].path
                /\ sess'.connectionInfo.set
                /\ OnlyEvent(ConnectEv(sess'.connectionInfo))
      ]_vars

\* C7: while Open, a chunk arriving on the session's port dispatches exactly
\* one receive event and adds exactly its length to bytesReceived.
C7_ReceiveOnce ==
    [][ \A h \in Handles, n \in Lens :
            DataEvent(h, n) /\ sess.connected /\ sess.port = h =>
                /\ OnlyEvent(ReceiveEv(n))
                /\ sess'.bytesReceived = sess.bytesReceived + n
      ]_vars

C9_FailedSend ==
    [][ /\ \A n \in Lens :
              Send(n) /\ sendRejected(sess) =>
                  /\ last'.ret = "send:rejected" /\ last'.sent = 0
                  /\ sess' = sess /\ handles' = handles /\ last'.ev = <<>>
        /\ \A i \in 1..MaxSends :
              WriteDone(i, FALSE) =>
                  /\ last'.ret = "write:error" /\ last'.sent = 0
                  /\ sess' = sess /\ handles' = handles /\ last'.ev = <<>>
      ]_vars

C9_Witness == last.ret = "write:error" /\ last.sent = 0 /\ sess.connected

\* C10: a connect() that cannot open the device (the open fails, or the path
\* is not a known device) leaves the session Idle with no handle owned,
\* resolves false, dispatches exactly one connect(false) and opens nothing
\* again.
C10_FailedConnect ==
    [][ /\ \A h \in Handles, baud \in BaudRates :
              OpenDone(h, FALSE, baud) =>
                  /\ last'.ret = "open:error"
                  /\ OnlyEvent(ConnectEv(NullInfo))
                  /\ ~sess'.connected /\ sess'.port = Null
                  /\ \A g \in Handles :
                        handles'[g].st = "opening" => handles[g].st = "opening"
        /\ \A path \in ReqPaths :
              Connect(path) /\ ~sess.connected /\ findDevice(ports, path) = 0 =>
                  /\ last'.ret = "connect:notfound"
                  /\ OnlyEvent(ConnectEv(NullInfo))
                  /\ ~sess'.connected /\ sess'.port = sess.port
                  /\ handles' = handles
      ]_vars

\* C11: connect(path) on a session that is Open on that same path returns
\* true at once and changes nothing: no handle is created, no field of the
\* session (counters, connectionId) changes and no event is dispatched.
C11_ConnectAlreadyOpen ==
    [][ \A path \in ReqPaths :
            Connect(path) /\ sess.connected /\ sess.connectionId = path =>
                /\ last'.ret = "connect:already"
                /\ sess' = sess
                /\ handles' = handles
                /\ last'.ev = <<>>
      ]_vars

C11_Witness ==
    /\ last.ret = "connect:already"
    /\ sess.connected
    /\ sess.connectionId = last.path
    /\ sess.port # Null /\ handles[sess.port].st = "open"
    /\ sess.bytesSent > 0

\* C12: a disconnect() from Open dispatches disconnect(true) when the close
\* of the handle succeeds and disconnect(false) when the close calls back
\* with an error, and in both cases the session is Idle afterwards.
C12_DisconnectReports ==
    [][ \A h \in Handles, ok \in BOOLEAN :
            CloseDone(h, ok) /\ handles[h].closeCb = "disconnect" =>
                /\ Count(last'.ev, "disconnect") = 1
                /\ \E i \in 1..Len(last'.ev) : last'.ev[i] = DisconnectEv(ok)
                /\ ~sess'.connected
                /\ sess'.port = Null
      ]_vars

\* C13: when a disconnect() from Open completes, port, connectionId,
\* bitrate and connectionInfo are cleared, whether the close succeeded,
\* called back with an error or threw; after a failed close the session
\* does not refer to the handle any more.
C13_FieldsCleared ==
    [][ LET Cleared == /\ sess'.port = Null
                       /\ sess'.connectionId = "false"
                       /\ sess'.bitrate = 0
                       /\ sess'.connectionInfo = NullInfo
        IN  /\ \A h \in Handles, ok \in BOOLEAN :
                  CloseDone(h, ok) /\ handles[h].closeCb = "disconnect" => Cleared
            /\ DisconnectCloseThrows => Cleared
      ]_vars

\* C14: when disconnect() is called while the open of a connect() is
\* pending and that open then succeeds, the session does not become Open and
\* the handle is not left open.
C14_DisconnectWhileOpening ==
    [][ \A h \in Handles, baud \in BaudRates :
            /\ OpenDone(h, TRUE, baud)
            /\ last.ret = "disconnect:idle"
            /\ sess.port = h
            => /\ ~sess'.connected
               /\ handles'[h].st # "open"
      ]_vars

\* C15: when every open, close, write and drain callback is eventually
\* called, every call is eventually answered: the promise of each connect()
\* that created a handle resolves, each disconnect() that awaits a close
\* resolves, and the pending sends do not stay at their limit (with one
\* pending send: each send() resolves).
C15_CallsResolve ==
    /\ \A h \in Handles : handles[h].pend ~> ~handles[h].pend
    /\ \A h \in Handles :
          (handles[h].closeCb = "disconnect") ~> (handles[h].closeCb # "disconnect")
    /\ (Len(sends) = MaxSends) ~> (Len(sends) < MaxSends)

\* the paths of a list of ports or descriptors
Paths(xs) == {xs[i].path : i \in 1..Len(xs)}

\* C16: this.ports never holds two descriptors of one path, whatever polls,
\* loads and getDevices() calls ran and whatever list() answered them.
C16_OnePerPath ==
    \A i, j \in 1..Len(ports) : ports[i].path = ports[j].path => i = j

C16_Witness ==
    /\ last.ret = "poll:done"
    /\ Len(ports) = 2
    /\ ports[1].path = "p2"
    /\ last.ev = <<AddedEv(ports[2])>>

\* C17: a poll whose list() answered dispatches one addedDevice, carrying
\* the new descriptor, for each fetched path that was not known, one
\* removedDevice for each known path that was not fetched, and nothing else,
\* and leaves this.ports with exactly the fetched paths; a poll of an
\* unchanged device set dispatches nothing.
C17_PollDiff ==
    [][ \A systemPorts \in SystemLists :
            last'.ret = "poll:done" /\ PollDevices(systemPorts, TRUE) =>
                LET ev == last'.ev
                IN  /\ \A k \in 1..Len(systemPorts) :
                          systemPorts[k].path \notin Paths(ports) =>
                              Cardinality({i \in 1..Len(ev) :
                                  ev[i] = AddedEv(createPort(systemPorts[k]))}) = 1
                    /\ \A k \in 1..Len(ports) :
                          ports[k].path \notin Paths(systemPorts) =>
                              Cardinality({i \in 1..Len(ev) :
                                  ev[i] = RemovedEv(ports[k])}) = 1
                    /\ Len(ev) = Cardinality(Paths(systemPorts) \ Paths(ports))
                                 + Cardinality(Paths(ports) \ Paths(systemPorts))
                    /\ Paths(ports') = Paths(systemPorts)
                    /\ Paths(systemPorts) = Paths(ports) => ev = <<>> /\ ports' = ports
      ]_vars

C17_Witness ==
    /\ last.ret = "poll:done"
    /\ Len(ports) = 1
    /\ Len(last.ev) = 2
    /\ last.ev[1] = AddedEv(ports[1])
    /\ last.ev[2].type = "removedDevice"
    /\ last.ev[2].detail.path # ports[1].path

\* C18: when list() throws in a poll or a load, this.ports stays as it was,
\* no event is dispatched, the call resolves (the error stays inside) and
\* the polling interval stays set. (A call whose list() throws has no
\* answer to look at: <<>> stands for it.)
C18_EnumerationFails ==
    [][ \/ PollDevices(<<>>, FALSE)
        \/ LoadFrom(<<>>, FALSE)
        \/ GetDevices(<<>>, FALSE)
        => /\ ports' = ports
           /\ last'.ev = <<>>
           /\ last'.ret \in {"poll:failed", "none", "getDevices"}
           /\ sess'.pollInterval
           /\ sess' = sess
      ]_vars

C18_Witness == last.ret = "poll:failed" /\ Len(ports) = 2 /\ last.ev = <<>>

\* C19: getDevices() leaves this.ports, which the polls diff against, and
\* the session as they were.
C19_GetDevicesPure ==
    [][ \A systemPorts \in SystemLists, ok \in BOOLEAN :
            GetDevices(systemPorts, ok) => ports' = ports /\ sess' = sess
      ]_vars

\* C20: the displayName of a descriptor is "Betaflight " followed by the
\* vendor table's label when the vendor id has one, else by the
\* manufacturer string when the OS reports one, else by the path; the
\* descriptor's path is the raw port's path.
C20_DisplayName ==
    \A i \in 1..Len(ports) :
        LET d   == ports[i]
            raw == d.port
            hit == raw.vendorId # <<>> /\ vendorIdNames(parseInt16(raw.vendorId)) # ""
        IN  /\ d.path = raw.path
            /\ hit => d.displayName = "Betaflight " \o vendorIdNames(parseInt16(raw.vendorId))
            /\ ~hit /\ raw.manufacturer # "" =>
                    d.displayName = "Betaflight " \o raw.manufacturer
            /\ ~hit /\ raw.manufacturer = "" =>
                    d.displayName = "Betaflight " \o raw.path

C20_Witness ==
    /\ Len(ports) = 2
    /\ ports[1].port.vendorId = <<0, 4, 8, 3>>
    /\ ports[1].port.manufacturer = "FTDI"
    /\ ports[1].displayName = "Betaflight STM Electronics"
    /\ ports[2].port.vendorId = <<>>
    /\ ports[2].port.manufacturer = ""
    /\ ports[2].displayName = "Betaflight p2"

\* the scanned devices of the selector, and those that hold some filter
Scanned ==
    portHandler.currentSerialPorts \o portHandler.currentUsbPorts
                                   \o portHandler.currentBluetoothPorts

Matching ==
    {i \in 1..Len(Scanned) :
        \E f \in 1..Len(deviceFilter) : nameIncludes(Scanned[i].displayName, deviceFilter[f])}

NoHint == portHandler.called /\ portHandler.suggestedDevice = NoDevice

\* C21: when a suggested device is given, selectActivePort returns its path,
\* whatever the device lists and the mode flags are.
C21_HintWins ==
    portHandler.called /\ portHandler.suggestedDevice # NoDevice =>
        portHandler.result = portHandler.suggestedDevice.path

C21_Witness ==
    /\ portHandler.called
    /\ portHandler.suggestedDevice.path = "COM10"
    /\ Matching # {}
    /\ portHandler.showVirtualMode
    /\ portHandler.result = "COM10"

\* C22: without a suggested device the result is the path of a device that
\* holds a filter when there is one, whatever the mode flags; else "virtual"
\* when showVirtualMode; else "manual" when showManualMode; else undefined,
\* and then the selection is "noselection".
C22_Priority ==
    NoHint =>
        IF Matching # {}
        THEN portHandler.result \in {Scanned[i].path : i \in Matching}
        ELSE IF portHandler.showVirtualMode THEN portHandler.result = "virtual"
        ELSE IF portHandler.showManualMode THEN portHandler.result = "manual"
        ELSE /\ portHandler.result = "undefined"
             /\ portHandler.selectedPort = "noselection"

C22_Witness ==
    /\ NoHint
    /\ Len(Scanned) = MaxSerial + 2 * MaxOther
    /\ Matching = {}
    /\ portHandler.showVirtualMode
    /\ portHandler.showManualMode
    /\ portHandler.result = "virtual"

\* C23: without a suggested device, when exactly one scanned device holds a
\* filter, selectActivePort returns the path of that device, whatever other
\* devices are present.
C23_SingleMatch ==
    NoHint =>
        \A i \in Matching : Matching = {i} => portHandler.result = Scanned[i].path

C23_Witness ==
    /\ NoHint
    /\ Len(portHandler.currentSerialPorts) = MaxSerial
    /\ Matching = {Len(Scanned)}
    /\ Len(portHandler.currentBluetoothPorts) = 1
    /\ portHandler.result = "bluetooth1"

\* C24: without a suggested device, when several devices hold filters the
\* chosen device holds the earliest filter of the list that any scanned
\* device holds, and it is the first device in scan order that holds it.
C24_FilterOrder ==
    NoHint /\ Matching # {} =>
        LET held(f) == {i \in 1..Len(Scanned) :
                            nameIncludes(Scanned[i].displayName, deviceFilter[f])}
            f0 == CHOOSE f \in 1..Len(deviceFilter) :
                      held(f) # {} /\ \A g \in 1..(f - 1) : held(g) = {}
            i0 == CHOOSE i \in held(f0) : \A j \in held(f0) : i <= j
        IN  portHandler.result = Scanned[i0].path

C24_Witness ==
    /\ NoHint
    /\ Len(Scanned) = 3
    /\ Scanned[1].displayName = <<"B", " ", "S", "T", "M">>
    /\ Scanned[2].displayName = <<"A", "T", "3", "2">>
    /\ Scanned[3].displayName = <<"A", "T", "3", "2">>
    /\ portHandler.result = Scanned[2].path

\* the events evs, dispatched in this order from a state where a subscriber
\* has seen the session open (or not), keep the order of a session: a
\* receive or a disconnect only while open, a connect(connectionInfo) only
\* while not open
RECURSIVE InOrder(_, _)
InOrder(open, evs) ==
    IF evs = <<>> THEN TRUE
    ELSE LET e == Head(evs)
         IN  /\ e.type \in {"receive", "disconnect"} => open
             /\ e.type = "connect" /\ e.ok => ~open
             /\ InOrder(afterEvents(open, <<e>>), Tail(evs))

\* C25: the events of the session are ordered: a receive event only after a
\* connect(connectionInfo) event with no disconnect event since, and
\* connect(connectionInfo) and disconnect events alternate.
C25_EventOrder ==
    [][InOrder(evOpen, last'.ev)]_vars

\* C26: poll cycles do not overlap: a tick begins only when every earlier
\* tick has ended (has dispatched its events), also when list() takes
\* longer than the polling period.
C26_PollsInTurn == polls <= 1

\* C27: the internal handlers are registered symmetrically: whenever the
\* session is Idle (not connected, no open requested) its receive handler is
\* not registered, and whenever it is Open its receive handler is registered
\* and exactly one data handler is attached to the handle it owns.
C27_IdleClean ==
    ~sess.connected /\ ~sess.openRequested => ~sess.receiveListener

C27_OpenOnce ==
    sess.connected =>
        /\ sess.receiveListener
        /\ sess.port # Null
        /\ handles[sess.port].nl = 1

C27_HandlersSymmetric == C27_IdleClean /\ C27_OpenOnce

\* C28: bytesSent and bytesReceived decrease only in the step that enters
\* Open (not connected before, connected after), and a step that sets a
\* changed counter to 0 is that step; a disconnect() and a failed connect()
\* leave both counters as they are.
C28_CountersMonotone ==
    [][ /\ (\/ sess'.bytesSent < sess.bytesSent
            \/ sess'.bytesReceived < sess.bytesReceived)
           => ~sess.connected /\ sess'.connected
        /\ last'.ret \in {"disconnect:idle", "disconnect:requested",
                          "disconnect:done", "close:done", "disconnect:failed",
                          "connect:notfound", "open:error", "open:canceled"}
           => /\ sess'.bytesSent = sess.bytesSent
              /\ sess'.bytesReceived = sess.bytesReceived ]_vars

\* C29: a connect(path) that resolves true leaves the session Open with
\* connectionId equal to the path it was called with, whether it resolved at
\* once (the session was already connected) or from the open callback.
C29_TrueMeansOpenOnPath ==
    [][ /\ last'.ret = "connect:already"
           => sess'.connected /\ sess'.connectionId = last'.path
        /\ last'.ret = "open:ok"
           => /\ sess'.connected
              /\ \E h \in Handles : /\ handles[h].st = "opening"
                                    /\ handles'[h].st = "open"
                                    /\ sess'.connectionId = handles[h].path ]_vars

\* C30: the completion of a disconnect() clears only the handle that
\* disconnect() closed: when the session meanwhile names a handle that a later
\* connect() created, the completion leaves this.port as it is.
C30_DisconnectClearsOwnHandle ==
    [][ \A h \in Handles :
          /\ handles[h].st = "closing"
          /\ handles[h].closeCb = "disconnect"
          /\ handles'[h].st # "closing"
          /\ last'.ret = "close:done"
          /\ sess.port # h
          => sess'.port = sess.port ]_vars

\* the device events evs, in order, each differ in type from the last device
\* event of the same path
RECURSIVE InTurn(_, _)
InTurn(seen, evs) ==
    IF evs = <<>> THEN TRUE
    ELSE /\ Head(evs).type \in {"addedDevice", "removedDevice"}
            => seen[Head(evs).detail.path] # Head(evs).type
         /\ InTurn(afterDeviceEvents(seen, <<Head(evs)>>), Tail(evs))

\* C31: for every path, addedDevice and removedDevice events alternate over
\* poll cycles and getDevices() / loadDevices() calls: no two addedDevice
\* events of a path without a removedDevice of it between them, and no two
\* removedDevice events without an addedDevice between them.
C31_DeviceEventsAlternate ==
    [][InTurn(devEvent, last'.ev)]_vars

====
